---- MODULE Spec2Model ----
(***************************************************************************)
(* Transport state machine of playsoundsimple.sound.Sound.                 *)
(*                                                                         *)
(* One Sound object, the caller contexts that invoke its transport         *)
(* methods, and the producer threads spawned by play().  Every access to   *)
(* a shared attribute of the Sound (self.__playing, self.__paused,         *)
(* self.__cur_frame, self.__thread, the decoder position of self.sf) is    *)
(* one step, because the methods take no lock: a method is a sequence of   *)
(* steps that interleaves with the producer and with other callers.        *)
(*                                                                         *)
(* Time values given to set_position are measured in units of              *)
(* 1/(PosUnit*SampleRate) seconds, so that value*samplerate is h/PosUnit   *)
(* frames and the rounding of round() is visible.                          *)
(*                                                                         *)
(* The making of a Sound from an input handle, by Sound() or by            *)
(* Sound.from_midi(), and its disposal by __del__ are modelled with the    *)
(* files they create and remove.                                           *)
(***************************************************************************)
EXTENDS Integers, Sequences, FiniteSets, TLC

\* ------------------------------------------------------------------ bounds
MaxFrame   == 3      \* sf.frames of the opened file
SampleRate == 20     \* sf.samplerate of the opened file
PosUnit    == 2      \* set_position arguments are multiples of 1/PosUnit frame
MaxMode    == 2      \* largest loop count given to play()
MinMode    == 2      \* a looping producer counts down to -MinMode at most
MaxThreads == 2      \* Thread objects alive or referenced at one time
CountCap   == 3      \* the sink's per-frame write count saturates here
CurCap     == 5      \* the += of the producer stores no cursor above this

None    == 0
DefaultMode == 1     \* def play(self, mode: int=1)
Threads == 1 .. MaxThreads
Callers == {1, 2}
Frames  == 0 .. (MaxFrame - 1)
Modes   == (-1) .. MaxMode
Values  == (-1) .. (PosUnit * MaxFrame + 1)

\* ------------------------------------------------------------ pure helpers
\* Python's round() of the non-negative rational n/d: half goes to even.
RoundDiv(n, d) ==
    LET q == n \div d
        r == n % d
    IN  IF 2 * r < d THEN q
        ELSE IF 2 * r > d THEN q + 1
        ELSE IF q % 2 = 0 THEN q ELSE q + 1

\* self.__supply = round(self.__samplerate / 10)
Supply == RoundDiv(SampleRate, 10)

Min(a, b) == IF a < b THEN a ELSE b

\* len(self.sf.read(frames)) at decoder position pos
ReadLen(pos, frames) == Min(frames, MaxFrame - pos)

\* self.sf.seek(frames) is accepted by the decoder for 0 <= frames <= sf.frames
SeekOk(frames) == 0 <= frames /\ frames <= MaxFrame

\* 0.0 <= value <= self.__duration, with duration = max_frame / samplerate
InRange_Strict(h) == 0 <= h /\ h < PosUnit * MaxFrame
InRange(h) == 0 <= h /\ h <= PosUnit * MaxFrame

\* round(value * self.__samplerate)
ToFrame(h) == RoundDiv(h, PosUnit)

\* while (mode != 0) and (self.__playing)
OuterCond_NoZero(mode, isPlaying) == isPlaying
OuterCond(mode, isPlaying) == mode # 0 /\ isPlaying

\* mode-1
NextMode_TowardsZero(mode) == IF mode < 0 THEN mode + 1 ELSE mode - 1
NextMode(mode) == mode - 1

\* if not self.__playing  (play)
PlayGuard_Always(isPlaying) == TRUE
PlayGuard(isPlaying) == ~isPlaying

\* ---------------------------------------------- input handles and files
\* the types of fp that opener() and getfp() tell apart, open or closed
Kinds == {"str", "Path", "bytes", "BytesIO", "BytesIO_closed",
          "BufferedReader", "BufferedReader_closed", "other"}

\* what the input holds
Riff == <<"R", "I", "F", "F">>
Contents == { <<>>, <<"M", "T", "h">>, <<"M", "T", "h", "d">>, <<"M", "T", "h", "d", "x">>,
              <<"M", "T", "h", "x">>, Riff }

\* the caller's file, the file of mkstemp(".midi"), the file of mkstemp(".wav")
FileNames == {"fp", "midi", "wav"}
Absent == <<"absent">>
NoName == "None"

\* the caller's file exists when fp is a path or a handle on a file
OnDisk(kind) == kind \in {"str", "Path", "BufferedReader", "BufferedReader_closed"}

\* 85-87: file.read(4) == b"MThd"
IsMidiFile_ThreeBytes(bytes) == SubSeq(bytes, 1, Min(3, Len(bytes))) = <<"M", "T", "h">>
IsMidiFile(bytes) == SubSeq(bytes, 1, Min(4, Len(bytes))) = <<"M", "T", "h", "d">>

\* 44-73: getfp(fp, filetype): the path, whether a temporary file is made for
\* it, or the exception
GetFp(kind) ==
    CASE kind \in {"str", "Path"} -> [path |-> "fp", is_temp |-> FALSE, exc |-> "none"]
      [] kind = "bytes" -> [path |-> "midi", is_temp |-> TRUE, exc |-> "none"]
      [] kind = "BytesIO" -> [path |-> "midi", is_temp |-> TRUE, exc |-> "none"]
      [] kind = "BytesIO_closed" -> [path |-> NoName, is_temp |-> FALSE, exc |-> "RuntimeError"]
      [] kind = "BufferedReader" -> [path |-> "midi", is_temp |-> TRUE, exc |-> "none"]
      [] kind = "BufferedReader_closed" -> [path |-> "fp", is_temp |-> FALSE, exc |-> "none"]
      [] OTHER -> [path |-> NoName, is_temp |-> FALSE, exc |-> "TypeError"]

\* 22-42: opener(fp): the name, or the exception (is_temp is always False)
Opener(kind) ==
    CASE kind \in {"str", "Path"} -> [name |-> "fp", exc |-> "none"]
      [] kind \in {"bytes", "BytesIO"} -> [name |-> NoName, exc |-> "none"]
      [] kind = "BufferedReader" -> [name |-> "fp", exc |-> "none"]
      [] kind \in {"BytesIO_closed", "BufferedReader_closed"} ->
             [name |-> NoName, exc |-> "RuntimeError"]
      [] OTHER -> [name |-> NoName, exc |-> "TypeError"]

\* SoundFile(fp) opens audio data and raises on anything else
Decodable(bytes) == SubSeq(bytes, 1, Min(4, Len(bytes))) = Riff

\* os.remove(*args): one path is removed, any other call raises TypeError
OsRemove(d, args) ==
    IF Len(args) = 1
      THEN [files |-> [d EXCEPT ![args[1]] = Absent], exc |-> "none"]
      ELSE [files |-> d, exc |-> "TypeError"]

NoOp == [name |-> "none", arg |-> 0, res |-> "none"]
Op(n, a, r) == [name |-> n, arg |-> a, res |-> r]

VARIABLES
    playing,     \* self.__playing
    paused,      \* self.__paused
    cur_frame,   \* self.__cur_frame
    sfpos,       \* read position of the decoder self.sf
    thread,      \* self.__thread: None or a thread id
    tpc,         \* per thread id: "none" (no such Thread object), "created", a line of
                 \* __streaming__, "done", "crashed"
    targ,        \* per thread: args=(mode,) of the Thread object
    tmode,       \* per thread: the local mode of __streaming__
    tdata,       \* per thread: <<first frame, length>> of the local data
    tcur,        \* per thread: self.__cur_frame as loaded by the += of line 235
    sinkOn,      \* the streamer is started
    written,     \* per frame: chunks holding it sent to the sink since the last Thread was created,
                 \* counted for as long as no stop() and no seek disturbs that session
    callers,     \* the caller contexts in use
    cpc,         \* per caller: position inside the method it is running
    cop,         \* per caller: the call in progress, the argument it still needs, its outcome
    cjoin,       \* per caller: the thread stop() is joining
    prevPlay,    \* per caller: the call before this one was a play() that took effect
    stopIssued,  \* a stop() cleared playing since the last Thread was created
    seekIssued,  \* a set_position() was accepted since the last Thread was created, or it started off frame 0
                 \* or next to a producer still running
    pauseSends,  \* chunks sent since the last pause() took effect; NoPause once play, unpause, stop, a
                 \* seek or the end of the session intervened
    stopSends,   \* chunks sent since a stop() cleared playing, for the last Thread created
    stopInWait,  \* that stop() cleared playing while a producer sat in the pause wait
    fp,          \* the input handle given to Sound() or Sound.from_midi(): its kind and its bytes
    synth,       \* the synthesizer: whether it is installed, whether its render succeeds
    disk,        \* per file name: the bytes of the file, or Absent
    lpc,         \* position in the life of the Sound: the line of from_midi, "sound", "raised", "disposed"
    call,        \* how the Sound is made: "none" yet, "Sound" or "from_midi"
    path,        \* from_midi: the local path
    path_temp,   \* from_midi: the local is_temp
    exc,         \* the exception the call raised, or "none"
    rendered,    \* midi2wave was invoked
    name,        \* self.__name, or NoName
    is_temp,     \* self.is_temp
    sf           \* self.sf: "none", "open" or "closed"

vars == <<playing, paused, cur_frame, sfpos, thread, tpc, targ, tmode, tdata, tcur,
          sinkOn, written, callers, cpc, cop, cjoin, prevPlay, stopIssued, seekIssued,
          pauseSends, stopSends, stopInWait,
          fp, synth, disk, lpc, call, path, path_temp, exc, rendered, name, is_temp, sf>>

shared   == <<playing, paused, cur_frame, sfpos, thread>>
tlocals  == <<targ, tmode, tdata, tcur>>
sinkVars == <<sinkOn, written>>
ghosts   == <<stopIssued, seekIssued, pauseSends, stopSends, stopInWait>>
cvars    == <<callers, cpc, cop, cjoin, prevPlay>>
life     == <<fp, synth, disk, lpc, call, path, path_temp, exc, rendered, name, is_temp, sf>>

NoPause == 0 - 1
NoWrites == [f \in Frames |-> 0]

\* Sound.__init__, lines 123-128
InitSound ==
    /\ playing = FALSE
    /\ paused = FALSE
    /\ cur_frame = 0
    /\ sfpos = 0
    /\ thread = None
    /\ tpc = [t \in Threads |-> "none"]
    /\ targ = [t \in Threads |-> 0]
    /\ tmode = [t \in Threads |-> 0]
    /\ tdata = [t \in Threads |-> <<0, 0>>]
    /\ tcur = [t \in Threads |-> 0]
    /\ sinkOn = FALSE
    /\ written = NoWrites
    /\ cpc = [c \in Callers |-> "idle"]
    /\ cop = [c \in Callers |-> NoOp]
    /\ cjoin = [c \in Callers |-> None]
    /\ prevPlay = [c \in Callers |-> FALSE]
    /\ stopIssued = FALSE
    /\ seekIssued = FALSE
    /\ pauseSends = NoPause
    /\ stopSends = 0
    /\ stopInWait = FALSE

\* a Sound that was opened from the path of an audio file
Opened ==
    /\ fp = [kind |-> "str", bytes |-> Riff]
    /\ synth = [exists |-> FALSE, renders |-> FALSE]
    /\ disk = [n \in FileNames |-> IF n = "fp" THEN Riff ELSE Absent]
    /\ lpc = "sound"
    /\ call = "Sound"
    /\ path = NoName
    /\ path_temp = FALSE
    /\ exc = "none"
    /\ rendered = FALSE
    /\ name = "fp"
    /\ is_temp = FALSE
    /\ sf = "open"

\* one caller context
Init == InitSound /\ Opened /\ callers = {1}

\* two caller contexts
InitRace == InitSound /\ Opened /\ callers = {1, 2}

\* no Sound yet: an input handle of any kind and content, a synthesizer that
\* is installed or not and renders or fails
InitLife ==
    /\ InitSound
    /\ callers = {1}
    /\ fp \in [kind : Kinds, bytes : Contents]
    /\ synth \in [exists : BOOLEAN, renders : BOOLEAN]
    /\ disk = [n \in FileNames |-> IF n = "fp" /\ OnDisk(fp.kind) THEN fp.bytes ELSE Absent]
    /\ lpc = "idle"
    /\ call = "none"
    /\ path = NoName
    /\ path_temp = FALSE
    /\ exc = "none"
    /\ rendered = FALSE
    /\ name = NoName
    /\ is_temp = FALSE
    /\ sf = "none"

\* ------------------------------------------------- the producer, lines 225-244
Set(f, x, v) == [f EXCEPT ![x] = v]

Ended(t) == tpc[t] \in {"done", "crashed"}

\* a Thread that was created and has not yet cleared playing at line 243
Running(t) == tpc[t] \notin {"none", "L244", "done", "crashed"}

\* A Thread object that has ended and that neither self.__thread nor a join()
\* in progress refers to is garbage: its id stands for no object any more.
Referenced(t, ref, joins) == ref = t \/ \E c \in Callers : joins[c] = t

\* Thread ids are names of Thread objects and carry no meaning: the objects that
\* exist keep the ids 1..n, in their order, whenever one of them becomes garbage.
Live(pcs) == {t \in Threads : pcs[t] # "none"}
Rank(pcs, t) == Cardinality({u \in Live(pcs) : u <= t})
Sel(pcs, k) == CHOOSE t \in Live(pcs) : Rank(pcs, t) = k
Renum(pcs, f, dflt) ==
    [k \in Threads |-> IF k <= Cardinality(Live(pcs)) THEN f[Sel(pcs, k)] ELSE dflt]
Ref(pcs, r) == IF r = None THEN None ELSE Rank(pcs, r)

\* 226: self.__streamer.start()
L226(t) ==
    /\ tpc[t] = "L226"
    /\ sinkOn' = TRUE
    /\ tpc' = Set(tpc, t, "L227")
    /\ UNCHANGED <<life, shared, tlocals, written, cvars, ghosts>>

\* 227: self.sf.seek(self.__cur_frame); a seek the decoder refuses raises in the thread
L227(t) ==
    /\ tpc[t] = "L227"
    /\ IF SeekOk(cur_frame)
         THEN sfpos' = cur_frame /\ tpc' = Set(tpc, t, "L228")
         ELSE sfpos' = sfpos /\ tpc' = Set(tpc, t, "crashed")
    /\ UNCHANGED <<life, playing, paused, cur_frame, thread, tlocals, sinkVars, cvars, ghosts>>

\* 228: while (mode != 0) and (self.__playing)
L228(t) ==
    /\ tpc[t] = "L228"
    /\ tpc' = Set(tpc, t, IF OuterCond(tmode[t], playing) THEN "L229" ELSE "L240")
    /\ UNCHANGED <<life, shared, tlocals, sinkVars, cvars, ghosts>>

L229_NoCheck(t) ==
    /\ tpc[t] = "L229"
    /\ tpc' = Set(tpc, t, "L230")
    /\ UNCHANGED <<life, shared, tlocals, sinkVars, cvars, ghosts>>

\* 229: while self.__playing
L229(t) ==
    /\ tpc[t] = "L229"
    /\ tpc' = Set(tpc, t, IF playing THEN "L230" ELSE "L238")
    /\ UNCHANGED <<life, shared, tlocals, sinkVars, cvars, ghosts>>

\* 230 (220-222): _check_pause, left when self.__paused is read false
L230(t) ==
    /\ tpc[t] = "L230"
    /\ ~paused
    /\ tpc' = Set(tpc, t, "L231")
    /\ UNCHANGED <<life, shared, tlocals, sinkVars, cvars, ghosts>>

\* 231-233, 236-237: data = self.sf.read(self.__supply); break on an empty read
L231(t) ==
    /\ tpc[t] = "L231"
    /\ LET n == ReadLen(sfpos, Supply)
       IN  /\ tdata' = Set(tdata, t, <<sfpos, n>>)
           /\ sfpos' = sfpos + n
           /\ tpc' = Set(tpc, t, IF n # 0 THEN "L234" ELSE "L238")
    /\ UNCHANGED <<life, playing, paused, cur_frame, thread, targ, tmode, tcur, sinkVars,
                   cvars, ghosts>>

Bump(n) == IF n < CountCap THEN n + 1 ELSE n

\* 234: self.__streamer.send(data * self.__volume)
L234(t) ==
    /\ tpc[t] = "L234"
    /\ written' = IF stopIssued \/ seekIssued THEN written
                   ELSE [f \in Frames |->
                           IF tdata[t][1] <= f /\ f < tdata[t][1] + tdata[t][2]
                             THEN Bump(written[f]) ELSE written[f]]
    /\ pauseSends' = IF pauseSends = NoPause THEN NoPause ELSE Min(pauseSends + 1, 2)
    /\ stopSends' = IF stopIssued THEN Min(stopSends + 1, 2) ELSE stopSends
    /\ tpc' = Set(tpc, t, "L235")
    /\ UNCHANGED <<life, shared, tlocals, sinkOn, cvars, stopIssued, seekIssued, stopInWait>>

\* 235: self.__cur_frame += length, the load
L235(t) ==
    /\ tpc[t] = "L235"
    /\ tcur' = Set(tcur, t, cur_frame)
    /\ tpc' = Set(tpc, t, "L235s")
    /\ UNCHANGED <<life, shared, targ, tmode, tdata, sinkVars, cvars, ghosts>>

L235s_AddSupply(t) ==
    /\ tpc[t] = "L235s"
    /\ tcur[t] + Supply <= CurCap
    /\ cur_frame' = tcur[t] + Supply
    /\ tcur' = Set(tcur, t, 0)
    /\ tdata' = Set(tdata, t, <<0, 0>>)
    /\ tpc' = Set(tpc, t, "L229")
    /\ UNCHANGED <<life, playing, paused, sfpos, thread, targ, tmode, sinkVars, cvars, ghosts>>

\* 235: self.__cur_frame += length, the store (data and the loaded value are dead afterwards)
\* (stale loads racing with set_position can grow the cursor without limit: capped at CurCap)
L235s(t) ==
    /\ tpc[t] = "L235s"
    /\ tcur[t] + tdata[t][2] <= CurCap
    /\ cur_frame' = tcur[t] + tdata[t][2]
    /\ tcur' = Set(tcur, t, 0)
    /\ tdata' = Set(tdata, t, <<0, 0>>)
    /\ tpc' = Set(tpc, t, "L229")
    /\ UNCHANGED <<life, playing, paused, sfpos, thread, targ, tmode, sinkVars, cvars, ghosts>>

L238_NoRewind(t) ==
    /\ tpc[t] = "L238"
    /\ tdata' = Set(tdata, t, <<0, 0>>)
    /\ tpc' = Set(tpc, t, "L239")
    /\ UNCHANGED <<life, shared, targ, tmode, tcur, sinkVars, cvars, ghosts>>

\* 238: self.sf.seek(0)
L238(t) ==
    /\ tpc[t] = "L238"
    /\ sfpos' = 0
    /\ tdata' = Set(tdata, t, <<0, 0>>)
    /\ tpc' = Set(tpc, t, "L239")
    /\ UNCHANGED <<life, playing, paused, cur_frame, thread, targ, tmode, tcur, sinkVars,
                   cvars, ghosts>>

\* 239: self.__cur_frame, mode = 0, mode-1
\* (a producer that keeps looping counts down no further than -MinMode)
L239(t) ==
    /\ tpc[t] = "L239"
    /\ tmode[t] > 0 - MinMode \/ ~playing
    /\ cur_frame' = 0
    /\ tmode' = Set(tmode, t, NextMode(tmode[t]))
    /\ tpc' = Set(tpc, t, "L228")
    /\ UNCHANGED <<life, playing, paused, sfpos, thread, targ, tdata, tcur, sinkVars, cvars,
                   ghosts>>

\* 240: self.sf.seek(0)
L240(t) ==
    /\ tpc[t] = "L240"
    /\ sfpos' = 0
    /\ tpc' = Set(tpc, t, "L241")
    /\ UNCHANGED <<life, playing, paused, cur_frame, thread, tlocals, sinkVars, cvars, ghosts>>

L241_NoReset(t) ==
    /\ tpc[t] = "L241"
    /\ tpc' = Set(tpc, t, "L242")
    /\ UNCHANGED <<life, shared, tlocals, sinkVars, cvars, ghosts>>

\* 241: self.__cur_frame = 0
L241(t) ==
    /\ tpc[t] = "L241"
    /\ cur_frame' = 0
    /\ tpc' = Set(tpc, t, "L242")
    /\ UNCHANGED <<life, playing, paused, sfpos, thread, tlocals, sinkVars, cvars, ghosts>>

L242_NoStop(t) ==
    /\ tpc[t] = "L242"
    /\ tpc' = Set(tpc, t, "L243")
    /\ UNCHANGED <<life, shared, tlocals, sinkVars, cvars, ghosts>>

\* 242: self.__streamer.stop()
L242(t) ==
    /\ tpc[t] = "L242"
    /\ sinkOn' = FALSE
    /\ tpc' = Set(tpc, t, "L243")
    /\ UNCHANGED <<life, shared, tlocals, written, cvars, ghosts>>

\* 243: self.__playing = False (mode is not read again: the model forgets it here)
L243(t) ==
    /\ tpc[t] = "L243"
    /\ playing' = FALSE
    /\ tpc' = Set(tpc, t, "L244")
    /\ tmode' = Set(tmode, t, 0)
    /\ targ' = Set(targ, t, 0)
    /\ pauseSends' = NoPause
    /\ UNCHANGED <<life, paused, cur_frame, sfpos, thread, tdata, tcur, sinkVars, cvars,
                   stopIssued, seekIssued, stopSends, stopInWait>>

\* 244: self.__paused = False, then the thread ends
L244(t) ==
    /\ tpc[t] = "L244"
    /\ paused' = FALSE
    /\ LET pcs == Set(tpc, t, IF Referenced(t, thread, cjoin) THEN "done" ELSE "none")
       IN  /\ tpc' = Renum(pcs, pcs, "none")
           /\ targ' = Renum(pcs, targ, 0)
           /\ tmode' = Renum(pcs, tmode, 0)
           /\ tdata' = Renum(pcs, tdata, <<0, 0>>)
           /\ tcur' = Renum(pcs, tcur, 0)
           /\ thread' = Ref(pcs, thread)
           /\ cjoin' = [c \in Callers |-> Ref(pcs, cjoin[c])]
    /\ UNCHANGED <<life, playing, cur_frame, sfpos, sinkVars, callers, cpc, cop, prevPlay, ghosts>>

Producer(t) ==
    \/ L226(t) \/ L227(t) \/ L228(t) \/ L229(t) \/ L230(t) \/ L231(t) \/ L234(t)
    \/ L235(t) \/ L235s(t) \/ L238(t) \/ L239(t) \/ L240(t) \/ L241(t) \/ L242(t)
    \/ L243(t) \/ L244(t)

\* ------------------------------------------------------- the transport methods
Idle(c) == c \in callers /\ cpc[c] = "idle"

Goto(c, pc, op) ==
    /\ cpc' = Set(cpc, c, pc)
    /\ cop' = Set(cop, c, op)

\* 269-270: play(mode) reads self.__playing
Play(c, mode) ==
    /\ Idle(c)
    /\ IF PlayGuard(playing)
         THEN Goto(c, "play_set", Op("play", mode, "done"))
         ELSE Goto(c, "ret", Op("play", 0, "noop"))
    /\ UNCHANGED <<life, shared, tpc, tlocals, sinkVars, callers, cjoin, prevPlay, ghosts>>

PlaySet_Forgot(c) ==
    /\ cpc[c] = "play_set"
    /\ cpc' = Set(cpc, c, "play_new")
    /\ UNCHANGED <<life, shared, tpc, tlocals, sinkVars, callers, cop, cjoin, prevPlay, ghosts>>

\* 271: self.__playing = True
PlaySet(c) ==
    /\ cpc[c] = "play_set"
    /\ playing' = TRUE
    /\ pauseSends' = NoPause
    /\ cpc' = Set(cpc, c, "play_new")
    /\ UNCHANGED <<life, paused, cur_frame, sfpos, thread, tpc, tlocals, sinkVars, callers, cop,
                   cjoin, prevPlay, stopIssued, seekIssued, stopSends, stopInWait>>

\* the ids a new Thread object can take: those of no object, and that of the
\* ended Thread which self.__thread is about to stop referring to
Unused ==
    {t \in Threads : tpc[t] = "none"}
      \cup {t \in Threads : t = thread /\ Ended(t) /\ ~Referenced(t, None, cjoin)}

\* 272: self.__thread = Thread(target=self.__streaming__, args=(mode,))
\* (a session that starts next to a producer still running counts as disturbed)
PlayNew(c) ==
    /\ cpc[c] = "play_new"
    /\ Unused # {}
    /\ LET t == CHOOSE u \in Unused : \A v \in Unused : u <= v
           old == thread
       IN  /\ thread' = t
           /\ tpc' = [u \in Threads |->
                       IF u = t THEN "created"
                       ELSE IF u = old /\ Ended(u) /\ ~Referenced(u, None, cjoin) THEN "none"
                       ELSE tpc[u]]
           /\ targ' = Set(targ, t, cop[c].arg)
           /\ tmode' = Set(tmode, t, cop[c].arg)
    /\ written' = NoWrites
    /\ stopIssued' = FALSE
    /\ stopSends' = 0
    /\ stopInWait' = FALSE
    /\ seekIssued' = (cur_frame # 0 \/ \E u \in Threads : Running(u))
    /\ cpc' = Set(cpc, c, "play_start")
    /\ UNCHANGED <<life, playing, paused, cur_frame, sfpos, tdata, tcur, sinkOn, callers, cop,
                   cjoin, prevPlay, pauseSends>>

\* 273: self.__thread.start(); starting a Thread a second time raises RuntimeError
PlayStart(c) ==
    /\ cpc[c] = "play_start"
    /\ IF tpc[thread] = "created"
         THEN /\ tpc' = Set(tpc, thread, "L226")
              /\ Goto(c, "ret", Op("play", 0, "done"))
         ELSE /\ tpc' = tpc
              /\ Goto(c, "ret", Op("play", 0, "raised"))
    /\ UNCHANGED <<life, shared, tlocals, sinkVars, callers, cjoin, prevPlay, ghosts>>

\* 261-262: pause() reads self.__paused
Pause(c) ==
    /\ Idle(c)
    /\ IF ~paused
         THEN Goto(c, "pause_chk", Op("pause", 0, "noop"))
         ELSE Goto(c, "ret", Op("pause", 0, "noop"))
    /\ UNCHANGED <<life, shared, tpc, tlocals, sinkVars, callers, cjoin, prevPlay, ghosts>>

\* 262: ... and self.__playing
PauseChk(c) ==
    /\ cpc[c] = "pause_chk"
    /\ IF playing
         THEN Goto(c, "pause_set", Op("pause", 0, "done"))
         ELSE Goto(c, "ret", cop[c])
    /\ UNCHANGED <<life, shared, tpc, tlocals, sinkVars, callers, cjoin, prevPlay, ghosts>>

\* 263: self.__paused = True
PauseSet(c) ==
    /\ cpc[c] = "pause_set"
    /\ paused' = TRUE
    /\ pauseSends' = 0
    /\ cpc' = Set(cpc, c, "ret")
    /\ UNCHANGED <<life, playing, cur_frame, sfpos, thread, tpc, tlocals, sinkVars, callers, cop,
                   cjoin, prevPlay, stopIssued, seekIssued, stopSends, stopInWait>>

\* 265-266: unpause() reads self.__paused
Unpause(c) ==
    /\ Idle(c)
    /\ IF paused
         THEN Goto(c, "unpause_chk", Op("unpause", 0, "noop"))
         ELSE Goto(c, "ret", Op("unpause", 0, "noop"))
    /\ UNCHANGED <<life, shared, tpc, tlocals, sinkVars, callers, cjoin, prevPlay, ghosts>>

\* 266: ... and self.__playing
UnpauseChk(c) ==
    /\ cpc[c] = "unpause_chk"
    /\ IF playing
         THEN Goto(c, "unpause_set", Op("unpause", 0, "done"))
         ELSE Goto(c, "ret", cop[c])
    /\ UNCHANGED <<life, shared, tpc, tlocals, sinkVars, callers, cjoin, prevPlay, ghosts>>

\* 267: self.__paused = False
UnpauseSet(c) ==
    /\ cpc[c] = "unpause_set"
    /\ paused' = FALSE
    /\ pauseSends' = NoPause
    /\ cpc' = Set(cpc, c, "ret")
    /\ UNCHANGED <<life, playing, cur_frame, sfpos, thread, tpc, tlocals, sinkVars, callers, cop,
                   cjoin, prevPlay, stopIssued, seekIssued, stopSends, stopInWait>>

\* 275-276: stop() reads self.__playing
Stop(c) ==
    /\ Idle(c)
    /\ IF playing
         THEN Goto(c, "stop_set1", Op("stop", 0, "done"))
         ELSE Goto(c, "ret", Op("stop", 0, "noop"))
    /\ UNCHANGED <<life, shared, tpc, tlocals, sinkVars, callers, cjoin, prevPlay, ghosts>>

\* 277: self.__playing, self.__paused = False, False: the first store
StopSet1(c) ==
    /\ cpc[c] = "stop_set1"
    /\ playing' = FALSE
    /\ stopIssued' = TRUE
    /\ stopSends' = 0
    /\ stopInWait' = (paused /\ \E t \in Threads : tpc[t] = "L230")
    /\ pauseSends' = NoPause
    /\ written' = NoWrites
    /\ cpc' = Set(cpc, c, "stop_set2")
    /\ UNCHANGED <<life, paused, cur_frame, sfpos, thread, tpc, tlocals, sinkOn, callers, cop,
                   cjoin, prevPlay, seekIssued>>

\* 277: the second store
StopSet2(c) ==
    /\ cpc[c] = "stop_set2"
    /\ paused' = FALSE
    /\ cpc' = Set(cpc, c, "stop_join")
    /\ UNCHANGED <<life, playing, cur_frame, sfpos, thread, tpc, tlocals, sinkVars, callers, cop,
                   cjoin, prevPlay, ghosts>>

\* 278-279: if self.__thread is not None: self.__thread.join()
\* (joining a Thread that was never started raises RuntimeError)
StopJoin(c) ==
    /\ cpc[c] = "stop_join"
    /\ IF thread = None
         THEN Goto(c, "ret", cop[c]) /\ cjoin' = cjoin
         ELSE IF tpc[thread] = "created"
         THEN Goto(c, "ret", Op("stop", 0, "raised")) /\ cjoin' = cjoin
         ELSE Goto(c, "stop_wait", cop[c]) /\ cjoin' = Set(cjoin, c, thread)
    /\ UNCHANGED <<life, shared, tpc, tlocals, sinkVars, callers, prevPlay, ghosts>>

\* Thread.join() returns once the thread has ended
JoinDone(t) == Ended(t)

\* 279: self.__thread.join() returns
StopWait(c) ==
    /\ cpc[c] = "stop_wait"
    /\ JoinDone(cjoin[c])
    /\ cpc' = Set(cpc, c, "ret")
    /\ LET joins == Set(cjoin, c, None)
           pcs == IF Referenced(cjoin[c], thread, joins) THEN tpc
                  ELSE Set(tpc, cjoin[c], "none")
       IN  /\ tpc' = Renum(pcs, pcs, "none")
           /\ targ' = Renum(pcs, targ, 0)
           /\ tmode' = Renum(pcs, tmode, 0)
           /\ tdata' = Renum(pcs, tdata, <<0, 0>>)
           /\ tcur' = Renum(pcs, tcur, 0)
           /\ thread' = Ref(pcs, thread)
           /\ cjoin' = [d \in Callers |-> Ref(pcs, joins[d])]
    /\ UNCHANGED <<life, playing, paused, cur_frame, sfpos, sinkVars, callers, cop, prevPlay,
                   ghosts>>

\* 256-258: set_position(value) compares value with the duration and, in
\* range, computes round(value * self.__samplerate)
SetPosition(c, h) ==
    /\ Idle(c)
    /\ IF InRange(h)
         THEN Goto(c, "sp_set", Op("set_position", ToFrame(h), "done"))
         ELSE Goto(c, "ret", Op("set_position", 0, "noop"))
    /\ UNCHANGED <<life, shared, tpc, tlocals, sinkVars, callers, cjoin, prevPlay, ghosts>>

\* 258: self.__cur_frame = ... (the frame is not read again)
SpSet(c) ==
    /\ cpc[c] = "sp_set"
    /\ cur_frame' = cop[c].arg
    /\ seekIssued' = TRUE
    /\ pauseSends' = NoPause
    /\ written' = NoWrites
    /\ Goto(c, "sp_seek", Op("set_position", 0, "done"))
    /\ UNCHANGED <<life, playing, paused, sfpos, thread, tpc, tlocals, sinkOn, callers, cjoin,
                   prevPlay, stopIssued, stopSends, stopInWait>>

\* 259: self.sf.seek(self.__cur_frame); a seek the decoder refuses raises
SpSeek(c) ==
    /\ cpc[c] = "sp_seek"
    /\ IF SeekOk(cur_frame)
         THEN sfpos' = cur_frame /\ Goto(c, "ret", cop[c])
         ELSE sfpos' = sfpos /\ Goto(c, "ret", Op("set_position", 0, "raised"))
    /\ UNCHANGED <<life, playing, paused, cur_frame, thread, tpc, tlocals, sinkVars, callers,
                   cjoin, prevPlay, ghosts>>

\* 281: wait() is entered
Wait(c) ==
    /\ Idle(c)
    /\ Goto(c, "wait_poll", Op("wait", 0, "done"))
    /\ UNCHANGED <<life, shared, tpc, tlocals, sinkVars, callers, cjoin, prevPlay, ghosts>>

\* 282-283: while self.__playing: time.sleep(0.001)
WaitPoll(c) ==
    /\ cpc[c] = "wait_poll"
    /\ ~playing
    /\ cpc' = Set(cpc, c, "ret")
    /\ UNCHANGED <<life, shared, tpc, tlocals, sinkVars, callers, cop, cjoin, prevPlay, ghosts>>

\* the method returns (or its exception propagates) to the caller
Return(c) ==
    /\ cpc[c] = "ret"
    /\ cpc' = Set(cpc, c, "idle")
    /\ cop' = Set(cop, c, NoOp)
    /\ prevPlay' = Set(prevPlay, c, cop[c].name = "play" /\ cop[c].res = "done")
    /\ UNCHANGED <<life, shared, tpc, tlocals, sinkVars, callers, cjoin, ghosts>>

Caller(c) ==
    \/ \E mode \in Modes : Play(c, mode)
    \/ PlaySet(c) \/ PlayNew(c) \/ PlayStart(c)
    \/ Pause(c) \/ PauseChk(c) \/ PauseSet(c)
    \/ Unpause(c) \/ UnpauseChk(c) \/ UnpauseSet(c)
    \/ Stop(c) \/ StopSet1(c) \/ StopSet2(c) \/ StopJoin(c) \/ StopWait(c)
    \/ \E h \in Values : SetPosition(c, h)
    \/ SpSet(c) \/ SpSeek(c)
    \/ Wait(c) \/ WaitPoll(c)
    \/ Return(c)

Next ==
    \/ \E t \in Threads : Producer(t)
    \/ \E c \in Callers : Caller(c)

\* a single caller context drives the Sound
Spec == Init /\ [][Next]_vars

\* two caller contexts drive the Sound concurrently
SpecRace == InitRace /\ [][Next]_vars

\* a caller context that only calls play(), with the default mode
Player(c) ==
    \/ Play(c, DefaultMode)
    \/ PlaySet(c) \/ PlayNew(c) \/ PlayStart(c)
    \/ Return(c)

NextRacePlay ==
    \/ \E t \in Threads : Producer(t)
    \/ \E c \in Callers : Player(c)

\* two caller contexts call play() concurrently
SpecRacePlay == InitRace /\ [][NextRacePlay]_vars

\* a caller context that starts and stops playback
Driver(c) ==
    \/ \E mode \in Modes : Play(c, mode)
    \/ PlaySet(c) \/ PlayNew(c) \/ PlayStart(c)
    \/ Stop(c) \/ StopSet1(c) \/ StopSet2(c) \/ StopJoin(c) \/ StopWait(c)
    \/ Return(c)

\* a caller context that pauses and resumes
Pauser(c) ==
    \/ Pause(c) \/ PauseChk(c) \/ PauseSet(c)
    \/ Unpause(c) \/ UnpauseChk(c) \/ UnpauseSet(c)
    \/ Return(c)

NextRaceStop ==
    \/ \E t \in Threads : Producer(t)
    \/ Driver(1)
    \/ Pauser(2)

\* one context calls play() and stop() while another calls pause() and unpause()
SpecRaceStop == InitRace /\ [][NextRaceStop]_vars

\* ------------------------------------------- making and disposing of a Sound
transport == <<shared, tpc, tlocals, sinkVars, cvars, ghosts>>

Raise(e) == lpc' = "raised" /\ exc' = e

\* 91-131: Sound(fp, is_temp=temp): opener(fp), SoundFile(fp), the attributes
Construct(kind, bytes, temp) ==
    LET o == Opener(kind)
    IN  IF o.exc # "none"
          THEN Raise(o.exc) /\ UNCHANGED <<name, is_temp, sf>>
        ELSE IF ~Decodable(bytes)
          THEN Raise("LibsndfileError") /\ UNCHANGED <<name, is_temp, sf>>
        ELSE /\ name' = o.name
             /\ is_temp' = (FALSE \/ temp)
             /\ sf' = "open"
             /\ lpc' = "sound"
             /\ exc' = exc

\* Sound(fp, is_temp=temp) called on the input handle
Open(temp) ==
    /\ lpc = "idle"
    /\ call' = "Sound"
    /\ Construct(fp.kind, fp.bytes, temp)
    /\ UNCHANGED <<transport, fp, synth, disk, path, path_temp, rendered>>

\* 178, 190: from_midi(fp): if fluidsynth.is_exists_fluidsynth() ... else raise
FromMidi178 ==
    /\ lpc = "idle"
    /\ call' = "from_midi"
    /\ IF synth.exists
         THEN lpc' = "L179" /\ exc' = exc
         ELSE Raise("FluidSynthNotFoundError")
    /\ UNCHANGED <<transport, fp, synth, disk, path, path_temp, rendered, name, is_temp, sf>>

\* 179: path, is_temp = getfp(fp, ".midi"): in-memory input is written to a
\* new temporary file
FromMidi179 ==
    /\ lpc = "L179"
    /\ LET g == GetFp(fp.kind)
       IN  IF g.exc # "none"
             THEN Raise(g.exc) /\ UNCHANGED <<disk, path, path_temp>>
             ELSE /\ path' = g.path
                  /\ path_temp' = g.is_temp
                  /\ disk' = IF g.is_temp THEN [disk EXCEPT ![g.path] = fp.bytes] ELSE disk
                  /\ lpc' = "L180"
                  /\ exc' = exc
    /\ UNCHANGED <<transport, fp, synth, call, rendered, name, is_temp, sf>>

\* 180-181: if not is_midi_file(path): raise FileTypeError(fp)
FromMidi180 ==
    /\ lpc = "L180"
    /\ IF IsMidiFile(disk[path])
         THEN lpc' = "L182" /\ exc' = exc
         ELSE Raise("FileTypeError")
    /\ UNCHANGED <<transport, fp, synth, disk, call, path, path_temp, rendered, name,
                   is_temp, sf>>

\* 182: npath = mkstemp(suffix=".wav")[1] creates an empty file
FromMidi182 ==
    /\ lpc = "L182"
    /\ disk' = [disk EXCEPT !["wav"] = <<>>]
    /\ lpc' = "L183"
    /\ UNCHANGED <<transport, fp, synth, call, path, path_temp, exc, rendered, name,
                   is_temp, sf>>

\* 183, 187-188: if fluidsynth.midi2wave(path, npath, sound_fonts_path) ... else raise
FromMidi183 ==
    /\ lpc = "L183"
    /\ rendered' = TRUE
    /\ IF synth.renders
         THEN disk' = [disk EXCEPT !["wav"] = Riff] /\ lpc' = "L184" /\ exc' = exc
         ELSE disk' = disk /\ Raise("FluidSynthRuntimeError")
    /\ UNCHANGED <<transport, fp, synth, call, path, path_temp, name, is_temp, sf>>

\* 184-185: if is_temp: os.remove(path)
FromMidi184 ==
    /\ lpc = "L184"
    /\ disk' = IF path_temp THEN OsRemove(disk, <<path>>).files ELSE disk
    /\ lpc' = "L186"
    /\ UNCHANGED <<transport, fp, synth, call, path, path_temp, exc, rendered, name,
                   is_temp, sf>>

\* 186: return Sound(npath, is_temp=True, **kwargs)
FromMidi186 ==
    /\ lpc = "L186"
    /\ Construct("str", disk["wav"], TRUE)
    /\ UNCHANGED <<transport, fp, synth, disk, call, path, path_temp, rendered>>

\* 210-217: __del__ (the second definition of the class body is the one in
\* force): the flags are cleared; for a temporary Sound with a name
\* os.remove() is called without the name, and what it raises is swallowed
Del ==
    /\ lpc = "sound"
    /\ playing' = FALSE
    /\ paused' = FALSE
    /\ disk' = IF is_temp /\ name # NoName THEN OsRemove(disk, <<>>).files ELSE disk
    /\ lpc' = "disposed"
    /\ UNCHANGED <<cur_frame, sfpos, thread, tpc, tlocals, sinkVars, cvars, ghosts,
                   fp, synth, call, path, path_temp, exc, rendered, name, is_temp, sf>>

NextLife ==
    \/ \E temp \in BOOLEAN : Open(temp)
    \/ FromMidi178 \/ FromMidi179 \/ FromMidi180 \/ FromMidi182 \/ FromMidi183
    \/ FromMidi184 \/ FromMidi186
    \/ Del

\* a Sound is made from an input handle, by Sound() or by from_midi(), and disposed of
SpecLife == InitLife /\ [][NextLife]_vars

\* The scheduler runs every thread that can take a step, and a method that has
\* been entered runs on; nothing obliges a caller to make another call.
Continue(c) ==
    \/ PlaySet(c) \/ PlayNew(c) \/ PlayStart(c)
    \/ PauseChk(c) \/ PauseSet(c)
    \/ UnpauseChk(c) \/ UnpauseSet(c)
    \/ StopSet1(c) \/ StopSet2(c) \/ StopJoin(c) \/ StopWait(c)
    \/ SpSet(c) \/ SpSeek(c)
    \/ WaitPoll(c)
    \/ Return(c)

Fairness ==
    /\ \A t \in Threads : WF_vars(Producer(t))
    /\ \A c \in Callers : WF_vars(Continue(c))

\* a single caller context, fair scheduling
FairSpec == Init /\ [][Next]_vars /\ Fairness

\* one context plays and stops, another pauses and resumes, fair scheduling
FairSpecRaceStop == InitRace /\ [][NextRaceStop]_vars /\ Fairness

\* ------------------------------------------------------------------ properties
LoopPcs == {"L229", "L230", "L231", "L234", "L235", "L235s", "L238", "L239"}
ExitPcs == {"L240", "L241", "L242", "L243"}
BodyPcs == {"L226", "L227", "L228"} \cup LoopPcs
ActivePcs == {"created"} \cup BodyPcs \cup ExitPcs

program == <<shared, tpc, tlocals, sinkOn>>

\* C1: in every reachable state paused = true implies playing = true.
C1_PausedImpliesPlaying == paused => playing

\* C2 (as stated): play(0) on a stopped sound never sets playing, creates no
\* Thread and never starts the sink.
C2_PlayZeroIsNoOp ==
    /\ \A c \in callers :
         (cop[c].name = "play" /\ cop[c].arg = 0) => cpc[c] \notin {"play_new", "play_start"}
    /\ \A t \in Threads : tpc[t] \in ActivePcs => targ[t] # 0

\* C2 (amended): a producer started by play(0) never enters the loop: it reads
\* no frame and sends no chunk, although playing was set, the thread was
\* spawned and the sink is started and stopped.
C2_PlayZeroSendsNothing ==
    \A t \in Threads : (tpc[t] \in ActivePcs /\ targ[t] = 0) => tpc[t] \notin LoopPcs

\* play(0) is about to stop the sink it started, playing still set
C2_Witness == \E t \in Threads : tpc[t] = "L242" /\ targ[t] = 0 /\ sinkOn /\ playing

\* C3: when a stop() that found the sound playing returns, the producer it
\* joined has ended and no thread is left in the loop; playing and paused are
\* false, the cursor is 0 and the sink is stopped.
C3_StopReturnsStopped ==
    \A c \in callers :
        (cpc[c] = "ret" /\ cop[c].name = "stop" /\ cop[c].res = "done") =>
            /\ thread # None /\ tpc[thread] = "done"
            /\ \A t \in Threads : tpc[t] \in {"none", "done", "L244"}
            /\ ~playing /\ ~paused
            /\ cur_frame = 0
            /\ ~sinkOn

\* a wait() entered right after a play() that took effect has returned
C4_Returned(c) == cpc[c] = "ret" /\ cop[c].name = "wait" /\ prevPlay[c]

\* ... and finds playing false, the cursor at 0 and the decoder rewound
C4_WaitSafe ==
    \A c \in callers : C4_Returned(c) => (~playing /\ cur_frame = 0 /\ sfpos = 0)

\* such a wait() is polling, the play() asked for a finite number of passes
\* and the sound is not paused (FairSpec has the one caller context 1)
C4_Waiting(c) ==
    /\ c \in callers
    /\ cpc[c] = "wait_poll"
    /\ prevPlay[c]
    /\ ~paused
    /\ thread # None
    /\ targ[thread] >= 0

\* C4: a wait() entered right after a play() that took effect returns only
\* with playing false, the cursor at 0 and the decoder rewound to 0; and when
\* that play() asked for a finite number of passes and the sound is not paused,
\* the wait() does return.
C4_WaitReturns ==
    /\ []C4_WaitSafe
    /\ C4_Waiting(1) ~> (cpc[1] = "ret")

\* wait() returned after a play(1) that sent every frame once
C4_Witness ==
    \E c \in callers :
        /\ C4_Returned(c)
        /\ thread # None /\ tpc[thread] = "done"
        /\ \A f \in Frames : written[f] = 1

\* the current producer was started by play(N), N > 1, from cursor 0, and no
\* stop() and no seek has disturbed it
C5_Undisturbed ==
    /\ thread # None
    /\ targ[thread] > 1
    /\ ~stopIssued
    /\ ~seekIssued

\* it has left the loop only after every frame was sent exactly N times
C5_PassesSafe ==
    (C5_Undisturbed /\ tpc[thread] \in ExitPcs) =>
        \A f \in Frames : written[f] = targ[thread]

\* C5: a producer started by play(N), N > 1, from cursor 0 that no stop() and
\* no seek disturbs leaves its loop only after every frame has been sent to
\* the sink exactly N times; and, unless the sound is paused or disturbed, it
\* does leave the loop by itself (and then clears playing).
C5_ExactlyNPasses ==
    /\ []C5_PassesSafe
    /\ (C5_Undisturbed /\ tpc[thread] \in BodyPcs)
         ~> \/ thread # None /\ tpc[thread] \in ExitPcs
            \/ paused \/ stopIssued \/ seekIssued

\* play(MaxMode) is about to clear playing, every frame sent MaxMode times
C5_Witness ==
    /\ C5_Undisturbed
    /\ tpc[thread] = "L243"
    /\ \A f \in Frames : written[f] = MaxMode

\* a producer started with a negative mode is past its loop only after a stop()
C6_ExitOnlyAfterStop ==
    \A t \in Threads : (tpc[t] \in ExitPcs /\ targ[t] < 0) => stopIssued

\* while such a producer runs, the step that clears playing is stop()'s
C6_OnlyStopClears ==
    (/\ \E t \in Threads : tpc[t] \in BodyPcs /\ targ[t] < 0
     /\ playing /\ ~playing')
      => \E c \in callers : cpc[c] = "stop_set1" /\ cpc'[c] = "stop_set2"

\* C6: a producer started by play(mode), mode < 0, leaves its loop only after
\* a stop(), and while it runs nothing but stop() clears playing.
C6_NegativeLoopsForever ==
    /\ []C6_ExitOnlyAfterStop
    /\ [][C6_OnlyStopClears]_vars

\* a producer started with a negative mode sends a chunk of a later pass
C6_Witness ==
    \E t \in Threads :
        /\ targ[t] < 0 /\ tmode[t] < targ[t]
        /\ tpc[t] = "L234" /\ playing /\ ~stopIssued

\* C7: in every reachable state 0 <= cursor <= total frames.
C7_CursorInRange == 0 <= cur_frame /\ cur_frame <= MaxFrame

\* the call: out of range returns at once with cursor and decoder untouched;
\* value 0 is accepted for frame 0 and the duration for the frame count
C8_Call(c) ==
    \A h \in Values :
        SetPosition(c, h) =>
            /\ (h < 0 \/ h > PosUnit * MaxFrame) =>
                   (cpc'[c] = "ret" /\ cop'[c].res = "noop" /\ UNCHANGED program)
            /\ (0 <= h /\ h <= PosUnit * MaxFrame) => cpc'[c] = "sp_set"
            /\ h = 0 => cop'[c].arg = 0
            /\ h = PosUnit * MaxFrame => cop'[c].arg = MaxFrame

\* the store: the cursor takes the frame, the decoder is not yet moved
C8_Store(c) ==
    (cpc[c] = "sp_set" /\ cpc'[c] = "sp_seek") =>
        (cur_frame' = cop[c].arg /\ sfpos' = sfpos)

\* the seek: the decoder moves to the cursor
C8_Seek(c) ==
    (cpc[c] = "sp_seek" /\ cpc'[c] = "ret" /\ cop'[c].res = "done") =>
        sfpos' = cur_frame /\ cur_frame' = cur_frame

\* C8: set_position(value) with value < 0 or value > duration is rejected and
\* changes neither the cursor nor the decoder position; every other value is
\* accepted, set_position(0) stores cursor 0 and set_position(duration) stores
\* the total frame count, and the seek that follows moves the decoder to the
\* cursor.
C8_SetPositionRange ==
    [][\A c \in callers : C8_Call(c) /\ C8_Store(c) /\ C8_Seek(c)]_vars

\* a value was rejected after set_position(duration) had put cursor and
\* decoder at the frame count
C8_Witness ==
    \E c \in callers :
        /\ cpc[c] = "ret" /\ cop[c].name = "set_position" /\ cop[c].res = "noop"
        /\ cur_frame = MaxFrame /\ sfpos = MaxFrame
        /\ ~playing

\* every chunk sent in a session without a seek starts at the cursor
C9_ChunkAtCursor ==
    \A t \in Threads : (tpc[t] = "L234" /\ ~seekIssued) => tdata[t][1] = cur_frame

\* C9: in a session without a seek every chunk sent starts at the cursor (no
\* frame is lost or sent twice, paused or not), and once a pause() has taken
\* effect at most one more chunk is sent until unpause(), stop(), a seek or
\* the next play().
C9_PauseBoundary ==
    /\ C9_ChunkAtCursor
    /\ pauseSends <= 1

\* the guard of the call c is making fails in this step
C10_Refused(c) ==
    \/ cpc[c] = "idle" /\ cop'[c].name = "play" /\ playing
    \/ cpc[c] = "idle" /\ cop'[c].name = "pause" /\ paused
    \/ cpc[c] = "pause_chk" /\ cpc'[c] # "pause_chk" /\ ~playing
    \/ cpc[c] = "idle" /\ cop'[c].name = "unpause" /\ ~paused
    \/ cpc[c] = "unpause_chk" /\ cpc'[c] # "unpause_chk" /\ ~playing

\* the call of c gets to the store that is its effect
C10_Effect(c) ==
    \/ cpc[c] # "play_set" /\ cpc'[c] = "play_set"
    \/ cpc[c] # "pause_set" /\ cpc'[c] = "pause_set"
    \/ cpc[c] # "unpause_set" /\ cpc'[c] = "unpause_set"

\* a refused call returns with the Sound untouched, an effect is never refused
C10_NoOp(c) ==
    /\ C10_Refused(c) => (cpc'[c] = "ret" /\ cop'[c].res = "noop" /\ UNCHANGED program)
    /\ C10_Effect(c) => ~C10_Refused(c)

\* no second producer next to one that has not yet cleared playing at its end
C10_OneProducer == Cardinality({t \in Threads : tpc[t] \in ActivePcs}) <= 1

\* C10: a transport call whose guard fails changes nothing of the Sound (flags,
\* cursor, decoder, loop counters, threads, sink) and returns: play() when
\* playing, pause() when paused or not playing, unpause() when not paused or
\* not playing; and play() never starts a second producer next to one that has
\* not reached the end of __streaming__.
C10_GuardedCalls ==
    /\ [][\A c \in callers : C10_NoOp(c)]_vars
    /\ []C10_OneProducer

\* play() was refused while the producer sits in the pause wait
C10_Witness ==
    \E c \in callers :
        /\ cpc[c] = "ret" /\ cop[c].name = "play" /\ cop[c].res = "noop"
        /\ playing /\ paused
        /\ \E t \in Threads : tpc[t] = "L230" /\ tmode[t] < targ[t]

\* C11: once stop() has cleared playing, the producer sends at most one more
\* chunk to the sink before it leaves the loop, also when stop() found it in
\* the pause wait.
C11_StopBound == stopSends <= 1

\* stop() found the producer in the pause wait, is joining it, and the
\* producer has sent its one further chunk
C11_Witness ==
    /\ stopInWait
    /\ stopSends = 1
    /\ \E c \in callers : cpc[c] = "stop_wait" /\ tpc[cjoin[c]] = "L235"

\* the check of play() passes only on reading playing false and stores nothing;
\* playing is set by a later step of that caller
C12_CheckThenSet(c) ==
    /\ (cpc[c] = "idle" /\ cpc'[c] # "idle" /\ cop'[c].res = "done") =>
           (~playing /\ ~playing' /\ cpc'[c] = "play_set")
    /\ (cpc[c] = "play_set" /\ cpc'[c] # "play_set") => (playing' /\ cpc'[c] = "play_new")

\* C12: play() reads playing and sets it in two steps, so that two contexts
\* calling play() on a stopped sound can both pass the check before either
\* sets the flag; two producers then run their loops at the same time on the
\* one decoder and the one sink.
C12_PlayNotAtomic ==
    /\ [][\A c \in callers : C12_CheckThenSet(c)]_vars
    /\ [][(~playing /\ playing') => \E c \in callers : cpc[c] = "play_set"]_vars

\* two producers are in the loop at once, one about to send what it read
\* while the other sits between its read and its cursor update
C12_Witness ==
    \E t, u \in Threads :
        /\ t # u
        /\ tpc[t] = "L234" /\ tpc[u] \in {"L234", "L235", "L235s"}
        /\ playing /\ sinkOn

\* the producer is at the top of an iteration, nothing read and not yet added
TopPcs == {"L229", "L230", "L231"}

\* C13: a set_position() that interleaves with an iteration of the producer
\* (between its read and its cursor update) can leave the cursor different
\* from the decoder's read position; in a session without a seek the two agree
\* at the top of every iteration.
C13_TornOnlyBySeek ==
    \A t \in Threads : (tpc[t] \in TopPcs /\ ~seekIssued) => cur_frame = sfpos

\* set_position() has returned, the producer is back at the top of its loop,
\* and the cursor is not where the decoder reads
C13_Witness ==
    \E c \in callers, t \in Threads :
        /\ cpc[c] = "ret" /\ cop[c].name = "set_position" /\ cop[c].res = "done"
        /\ tpc[t] \in TopPcs
        /\ cur_frame # sfpos
        /\ SeekOk(cur_frame)

\* C14: once a Sound has been disposed of, its decoder handle is closed; the
\* backing file of a temporary Sound with a name is gone from the disk, and
\* the file of any other Sound is as it was.
C14_DisposeCleans ==
    lpc = "disposed" =>
        /\ sf = "closed"
        /\ (is_temp /\ name # NoName) => disk[name] = Absent
        /\ (~is_temp /\ name # NoName) => disk[name] = fp.bytes

\* the input begins with the four bytes 'MThd'
C15_MThd ==
    /\ Len(fp.bytes) >= 4
    /\ fp.bytes[1] = "M" /\ fp.bytes[2] = "T" /\ fp.bytes[3] = "h" /\ fp.bytes[4] = "d"

\* from_midi has ended, by returning the Sound or by raising
C15_Ended == call = "from_midi" /\ lpc \in {"sound", "raised", "disposed"}

\* C15 (as stated): from_midi on an input whose first four bytes are not
\* 'MThd' fails with FileTypeError and never invokes midi2wave.
C15_NonMidiRejected ==
    (C15_Ended /\ ~C15_MThd) => (exc = "FileTypeError" /\ ~rendered)

\* C15 (amended): midi2wave is never invoked for an input whose first four
\* bytes are not 'MThd'; from_midi fails on it with FileTypeError when the
\* synthesizer is installed and getfp accepts the handle, and otherwise with
\* the error of the synthesizer probe or of getfp.
C15_NonMidiNeverRendered ==
    /\ (call = "from_midi" /\ ~C15_MThd) => ~rendered
    /\ (C15_Ended /\ ~C15_MThd) =>
          /\ lpc = "raised"
          /\ exc = IF ~synth.exists THEN "FluidSynthNotFoundError"
                    ELSE IF GetFp(fp.kind).exc # "none" THEN GetFp(fp.kind).exc
                    ELSE "FileTypeError"

\* from_midi raised FileTypeError on bytes that begin with 'MTh' only
C15_Witness ==
    /\ call = "from_midi" /\ lpc = "raised" /\ exc = "FileTypeError"
    /\ fp.kind = "bytes" /\ fp.bytes = <<"M", "T", "h">>
    /\ ~rendered

\* C16: stop() never waits in join() for a producer that sits in the pause
\* wait with paused true and playing false while no other call is in progress
\* (nothing would release that producer, and the stop() would not return).
C16_StopNeverStuck ==
    \A c \in callers :
        ~(/\ cpc[c] = "stop_wait"
          /\ tpc[cjoin[c]] = "L230"
          /\ paused /\ ~playing
          /\ \A d \in callers \ {c} : cpc[d] = "idle")

\* the same as a behaviour under fair scheduling: a stop() that has found the
\* sound playing returns
C16_StopReturns == (cpc[1] = "stop_set1") ~> (cpc[1] = "ret")

\* a pause() has taken effect in the session that is playing
C17_PauseInEffect == playing /\ paused /\ pauseSends # NoPause

\* C17: once a pause() has taken effect in a session, paused is cleared only
\* by unpause(), by stop() or by the end of that session's own producer; it
\* is never cleared by the last step of the producer of an earlier session.
C17_PauseSticks ==
    [][(C17_PauseInEffect /\ ~paused') =>
          \/ \E c \in callers : cpc[c] \in {"unpause_set", "stop_set2"} /\ cpc'[c] # cpc[c]
          \/ thread # None /\ tpc[thread] = "L244"]_vars

\* the producer is between its sink.start() and its sink.stop()
InsidePcs == {"L227", "L228"} \cup LoopPcs \cup {"L240", "L241", "L242"}

\* C18: with one caller context the sink is used in well-bracketed sessions:
\* the sink is started exactly while one producer is between its start() and
\* its stop(), so every send happens inside a bracket, a producer starts a
\* stopped sink and stops a started one, and no two brackets overlap.
C18_Bracketed ==
    /\ \A t \in Threads : tpc[t] \in InsidePcs => sinkOn
    /\ \A t \in Threads : tpc[t] = "L226" => ~sinkOn
    /\ sinkOn => \E t \in Threads : tpc[t] \in InsidePcs
    /\ Cardinality({t \in Threads : tpc[t] \in InsidePcs \cup {"L226"}}) <= 1

\* the producer of a second session sends a chunk while the producer of the
\* first, past its stop(), has not yet ended
C18_Witness ==
    \E t, u \in Threads :
        /\ tpc[t] = "L234" /\ tpc[u] = "L244"
        /\ sinkOn

\* C19: when from_midi has ended, whether it returned or raised, every
\* temporary file it made that is still on the disk is the backing file of
\* the Sound it returned, which is marked temporary.
C19_NoOrphanTemp ==
    (call = "from_midi" /\ lpc \in {"sound", "raised"}) =>
        \A f \in {"midi", "wav"} :
            disk[f] # Absent => (lpc = "sound" /\ name = f /\ is_temp)

====
